---- MODULE Spec2Model ----
(***************************************************************************)
(* Meeting-room dashboard (src/app.py): the booking store (bookings.csv    *)
(* behind the st.cache_data cache of load_bookings), the conflict          *)
(* validator, the e-mail OTP handshake that gates the Board Room, the      *)
(* per-day send counter (otp_rate_limits.json) and the CSV bulk upload.    *)
(*                                                                         *)
(* Every browser session runs the script in a thread of its own and owns   *)
(* its st.session_state; the two files and the cache are shared by all     *)
(* sessions.  A handler is cut into steps only where it reads or writes    *)
(* the shared files or the cache; one session runs one handler at a time.  *)
(*                                                                         *)
(* Left out: rendering, the SMTP transport (it answers ok or not), and     *)
(* the approver PIN, which only decides whether the approval panel draws   *)
(* its buttons.                                                            *)
(*                                                                         *)
(* Spec is the whole program.  SpecStore and SpecOtp are the two parts of  *)
(* it that TLC exhausts: SpecStore follows every way into the booking      *)
(* store with the clock standing still and approvers who type the right    *)
(* passcode; SpecOtp follows the OTP handshake (clock, wrong passcodes,    *)
(* resends) with the Board Room as the only room booked.                   *)
(* SpecValidate runs the quick-book forms of the ungated rooms, and so     *)
(* validate_booking, against every store of up to two committed rows.      *)
(***************************************************************************)
EXTENDS Integers, Sequences, FiniteSets, TLC

\* ------------------------------------------------------------------ bounds
\* Longest bookings.csv (and longest uploaded file) the model follows.
MaxStore == 2
\* Sends still allowed to the approver today in the initial rate file.
SendsLeft == 2

\* ------------------------------------------------------- program constants
SLOT_MINUTES == 30
OTP_LENGTH == 6
OTP_TTL_MINUTES == 5
OTP_MAX_ATTEMPTS == 5
OTP_RESEND_COOLDOWN_SECONDS == 45
OTP_DAILY_LIMIT == 50
SECONDS_PER_DAY == 86400

\* A Python datetime.time is its minute of the day; a "HH:MM" string is the
\* pair of its two numeric fields.
time(h, m) == h * 60 + m
BUSINESS_HOURS == <<time(9, 0), time(19, 0)>>
ROOM_IDS == {"mr1", "mr2", "mr3", "br"}
APPROVER_EMAIL == "approver@example.com"

\* Python's None.
None == [none |-> TRUE]

\* ------------------------------------------------------------ input domains
Sessions == {"s1", "s2"}
\* Instants the wall clock is sampled at (seconds, UTC).
Instants == {0, 45, 300, 301}
\* Rooms offered by a quick-book form; room ids an uploaded row may carry.
FormRooms == {"mr1", "br"}
UploadRooms == {"br", "xx"}
Dates == {"2024-01-01"}
\* (start, end) pairs typed into a form: two overlapping half-hour aligned
\* slots, an inverted one, one off the grid, one past closing time.
GoodSlots == {<<time(9, 0), time(10, 0)>>, <<time(9, 30), time(10, 30)>>}
BadSlots == {<<time(10, 0), time(9, 0)>>, <<time(9, 15), time(10, 0)>>,
             <<time(18, 30), time(19, 30)>>}
FormSlots == GoodSlots \cup BadSlots
\* (start, end) pairs an uploaded row may carry: a good one, and an
\* inverted one that comes in files of a single row.
UploadSlots == {<<time(9, 0), time(10, 0)>>}
BadUploadSlots == {<<time(10, 0), time(9, 0)>>}
\* Passcodes otp_random may draw, and what an approver may type.
Codes == {<<1, 1, 1, 1, 1, 1>>, <<2, 2, 2, 2, 2, 2>>}
TypedCodes == Codes \cup {<<1, 2>>}
Salts == {"salt"}

\* ------------------------------------------------------------- time utils
parse_time_str(s) == time(s[1], s[2])

fmt_time(t) == <<t \div 60, t % 60>>

minute(t) == t % 60

\* --------------------------------------------------------------- variables
VARIABLES
    csv,        \* bookings.csv: the sequence of rows on disk
    cache,      \* the frame load_bookings() returns: the st.cache_data
                \* copy, which is the file's content once the cache was
                \* cleared and the file read again
    rate,       \* otp_rate_limits.json: bucket key -> count
    now,        \* wall clock, seconds
    otp_ctx,    \* per session: st.session_state["otp_ctx"] or None
    pc,         \* per session: where its running handler stands
    local       \* per session: the running handler's local value: None,
                \* new_row, or [data |-> the rate map otp_inc_send loaded]

vars == <<csv, cache, rate, now, otp_ctx, pc, local>>

\* ------------------------------------------------------------------- rows
\* A row as a handler builds it; booked_by, title and created_at play no
\* part in any rule and are left out.
Row(rid, d, slot) ==
    [room_id |-> rid, date |-> d,
     start_time |-> fmt_time(slot[1]), end_time |-> fmt_time(slot[2])]

\* A row of the store: the row plus the path that put it there
\* ("direct", "otp" or "bulk"), which the program does not record.
Stamp(row, v) ==
    [room_id |-> row.room_id, date |-> row.date,
     start_time |-> row.start_time, end_time |-> row.end_time, via |-> v]

Unstamp(r) ==
    [room_id |-> r.room_id, date |-> r.date,
     start_time |-> r.start_time, end_time |-> r.end_time]

StampAll(rows, v) == [i \in 1..Len(rows) |-> Stamp(rows[i], v)]

\* ---------------------------------------------------------------- storage
\* load_bookings(): the cached frame.  Every script run loads before it
\* writes, so a cleared cache is filled from the file before the file
\* changes again.
load_bookings == cache

\* ---------------------------------------------------------- booking logic
\* overlaps were it to count touching intervals as overlapping.
overlaps_closed(s1, e1, s2, e2) == (s1 <= e2) /\ (s2 <= e1)

overlaps(s1, e1, s2, e2) == (s1 < e2) /\ (s2 < e1)

SameDay(new_row, df) ==
    {i \in 1..Len(df) : df[i].room_id = new_row.room_id /\ df[i].date = new_row.date}

Conflicts(new_row, df) ==
    {i \in SameDay(new_row, df) :
        overlaps(parse_time_str(new_row.start_time), parse_time_str(new_row.end_time),
                 parse_time_str(df[i].start_time), parse_time_str(df[i].end_time))}

\* validate_booking were it to let an empty interval (end = start) through.
validate_booking_empty_ok(new_row, df) ==
    LET start_t == parse_time_str(new_row.start_time)
        end_t == parse_time_str(new_row.end_time)
    IN  IF end_t < start_t THEN "End time must be after start time."
        ELSE IF start_t < BUSINESS_HOURS[1] \/ end_t > BUSINESS_HOURS[2]
             THEN "Booking must be within business hours."
        ELSE IF minute(start_t) % SLOT_MINUTES # 0 \/ minute(end_t) % SLOT_MINUTES # 0
             THEN "Time must align with slots."
        ELSE IF Conflicts(new_row, df) # {} THEN "Conflict with existing booking."
        ELSE ""

\* validate_booking were it to look at the business hours first.
validate_booking_hours_first(new_row, df) ==
    LET start_t == parse_time_str(new_row.start_time)
        end_t == parse_time_str(new_row.end_time)
    IN  IF start_t < BUSINESS_HOURS[1] \/ end_t > BUSINESS_HOURS[2]
        THEN "Booking must be within business hours."
        ELSE IF end_t <= start_t THEN "End time must be after start time."
        ELSE IF minute(start_t) % SLOT_MINUTES # 0 \/ minute(end_t) % SLOT_MINUTES # 0
             THEN "Time must align with slots."
        ELSE IF Conflicts(new_row, df) # {} THEN "Conflict with existing booking."
        ELSE ""

\* validate_booking were it to check the grid for the start time only.
validate_booking_start_grid(new_row, df) ==
    LET start_t == parse_time_str(new_row.start_time)
        end_t == parse_time_str(new_row.end_time)
    IN  IF end_t <= start_t THEN "End time must be after start time."
        ELSE IF start_t < BUSINESS_HOURS[1] \/ end_t > BUSINESS_HOURS[2]
             THEN "Booking must be within business hours."
        ELSE IF minute(start_t) % SLOT_MINUTES # 0
             THEN "Time must align with slots."
        ELSE IF Conflicts(new_row, df) # {} THEN "Conflict with existing booking."
        ELSE ""

\* The error validate_booking returns, "" for its None.
validate_booking(new_row, df) ==
    LET start_t == parse_time_str(new_row.start_time)
        end_t == parse_time_str(new_row.end_time)
    IN  IF end_t <= start_t THEN "End time must be after start time."
        ELSE IF start_t < BUSINESS_HOURS[1] \/ end_t > BUSINESS_HOURS[2]
             THEN "Booking must be within business hours."
        ELSE IF minute(start_t) % SLOT_MINUTES # 0 \/ minute(end_t) % SLOT_MINUTES # 0
             THEN "Time must align with slots."
        ELSE IF Conflicts(new_row, df) # {} THEN "Conflict with existing booking."
        ELSE ""

\* ------------------------------------------------------------ OTP helpers
otp_hash(otp, salt) == <<salt, otp>>

otp_load_rate == rate

otp_bucket_key(identifier, t) == <<identifier, t \div SECONDS_PER_DAY>>

\* data.get(k, 0)
Count(data, k) == IF k \in DOMAIN data THEN data[k] ELSE 0

\* otp_can_send were it to let one more send through at the limit.
otp_can_send_at_limit(identifier) ==
    Count(otp_load_rate, otp_bucket_key(identifier, now)) <= OTP_DAILY_LIMIT

otp_can_send(identifier) ==
    Count(otp_load_rate, otp_bucket_key(identifier, now)) < OTP_DAILY_LIMIT

\* otp_inc_send, from the map it loaded: the whole map with one bucket raised.
otp_inc_send(data, identifier) ==
    LET k == otp_bucket_key(identifier, now)
    IN  [x \in DOMAIN data \cup {k} |-> IF x = k THEN Count(data, k) + 1 ELSE data[x]]

otp_start_session(booking_row, approver_email, otp_plain, salt) ==
    [salt |-> salt,
     hash |-> otp_hash(otp_plain, salt),
     expires_at |-> now + OTP_TTL_MINUTES * 60,
     attempts_left |-> OTP_MAX_ATTEMPTS,
     resend_at |-> now + OTP_RESEND_COOLDOWN_SECONDS,
     verified |-> FALSE,
     approver_email |-> approver_email,
     booking_row |-> booking_row]

\* otp_resend were it to leave attempts_left as it found it.
otp_resend_keeps_attempts(ctx, new_plain, new_salt) ==
    [ctx EXCEPT !.salt = new_salt,
                !.hash = otp_hash(new_plain, new_salt),
                !.expires_at = now + OTP_TTL_MINUTES * 60,
                !.resend_at = now + OTP_RESEND_COOLDOWN_SECONDS,
                !.verified = FALSE]

otp_resend(ctx, new_plain, new_salt) ==
    [ctx EXCEPT !.salt = new_salt,
                !.hash = otp_hash(new_plain, new_salt),
                !.expires_at = now + OTP_TTL_MINUTES * 60,
                !.attempts_left = OTP_MAX_ATTEMPTS,
                !.resend_at = now + OTP_RESEND_COOLDOWN_SECONDS,
                !.verified = FALSE]

\* otp_verify were a wrong passcode to cost two attempts.
otp_verify_double_penalty(ctx, user_otp) ==
    IF ctx = None THEN [ok |-> FALSE, msg |-> "Session missing.", ctx |-> ctx]
    ELSE IF ctx.verified THEN [ok |-> TRUE, msg |-> "Already verified.", ctx |-> ctx]
    ELSE IF now > ctx.expires_at
         THEN [ok |-> FALSE, msg |-> "OTP expired. Please resend.", ctx |-> ctx]
    ELSE IF ctx.attempts_left <= 0
         THEN [ok |-> FALSE, msg |-> "Too many wrong attempts. Please resend.", ctx |-> ctx]
    ELSE IF otp_hash(user_otp, ctx.salt) = ctx.hash
         THEN [ok |-> TRUE, msg |-> "Verified.", ctx |-> [ctx EXCEPT !.verified = TRUE]]
    ELSE [ok |-> FALSE, msg |-> "Incorrect OTP.",
          ctx |-> [ctx EXCEPT !.attempts_left = @ - 2]]

\* otp_verify were it to skip the attempts_left check.
otp_verify_no_lockout(ctx, user_otp) ==
    IF ctx = None THEN [ok |-> FALSE, msg |-> "Session missing.", ctx |-> ctx]
    ELSE IF ctx.verified THEN [ok |-> TRUE, msg |-> "Already verified.", ctx |-> ctx]
    ELSE IF now > ctx.expires_at
         THEN [ok |-> FALSE, msg |-> "OTP expired. Please resend.", ctx |-> ctx]
    ELSE IF otp_hash(user_otp, ctx.salt) = ctx.hash
         THEN [ok |-> TRUE, msg |-> "Verified.", ctx |-> [ctx EXCEPT !.verified = TRUE]]
    ELSE [ok |-> FALSE, msg |-> "Incorrect OTP.",
          ctx |-> [ctx EXCEPT !.attempts_left = @ - 1]]

\* otp_verify were it to skip the expiry check.
otp_verify_no_expiry(ctx, user_otp) ==
    IF ctx = None THEN [ok |-> FALSE, msg |-> "Session missing.", ctx |-> ctx]
    ELSE IF ctx.verified THEN [ok |-> TRUE, msg |-> "Already verified.", ctx |-> ctx]
    ELSE IF ctx.attempts_left <= 0
         THEN [ok |-> FALSE, msg |-> "Too many wrong attempts. Please resend.", ctx |-> ctx]
    ELSE IF otp_hash(user_otp, ctx.salt) = ctx.hash
         THEN [ok |-> TRUE, msg |-> "Verified.", ctx |-> [ctx EXCEPT !.verified = TRUE]]
    ELSE [ok |-> FALSE, msg |-> "Incorrect OTP.",
          ctx |-> [ctx EXCEPT !.attempts_left = @ - 1]]

\* otp_verify were it to drop the session it finds expired.
otp_verify_clears_expired(ctx, user_otp) ==
    IF ctx = None THEN [ok |-> FALSE, msg |-> "Session missing.", ctx |-> ctx]
    ELSE IF ctx.verified THEN [ok |-> TRUE, msg |-> "Already verified.", ctx |-> ctx]
    ELSE IF now > ctx.expires_at
         THEN [ok |-> FALSE, msg |-> "OTP expired. Please resend.", ctx |-> None]
    ELSE IF ctx.attempts_left <= 0
         THEN [ok |-> FALSE, msg |-> "Too many wrong attempts. Please resend.", ctx |-> ctx]
    ELSE IF otp_hash(user_otp, ctx.salt) = ctx.hash
         THEN [ok |-> TRUE, msg |-> "Verified.", ctx |-> [ctx EXCEPT !.verified = TRUE]]
    ELSE [ok |-> FALSE, msg |-> "Incorrect OTP.",
          ctx |-> [ctx EXCEPT !.attempts_left = @ - 1]]

otp_verify(ctx, user_otp) ==
    IF ctx = None THEN [ok |-> FALSE, msg |-> "Session missing.", ctx |-> ctx]
    ELSE IF ctx.verified THEN [ok |-> TRUE, msg |-> "Already verified.", ctx |-> ctx]
    ELSE IF now > ctx.expires_at
         THEN [ok |-> FALSE, msg |-> "OTP expired. Please resend.", ctx |-> ctx]
    ELSE IF ctx.attempts_left <= 0
         THEN [ok |-> FALSE, msg |-> "Too many wrong attempts. Please resend.", ctx |-> ctx]
    ELSE IF otp_hash(user_otp, ctx.salt) = ctx.hash
         THEN [ok |-> TRUE, msg |-> "Verified.", ctx |-> [ctx EXCEPT !.verified = TRUE]]
    ELSE [ok |-> FALSE, msg |-> "Incorrect OTP.",
          ctx |-> [ctx EXCEPT !.attempts_left = @ - 1]]

\* user_otp.isdigit() and len(user_otp) == OTP_LENGTH
WellFormedOtp(user_otp) ==
    Len(user_otp) = OTP_LENGTH /\ \A i \in 1..Len(user_otp) : user_otp[i] \in 0..9

\* ------------------------------------------------------------ bulk upload
\* The upload block's own overlaps(a1, a2, b1, b2).
upload_overlaps(a1, a2, b1, b2) == (a1 < b2) /\ (b1 < a2)

\* The room ids whose rows the upload check walks through.
UploadCheckedRooms == ROOM_IDS

\* err_msgs: the pairs i < j of one checked room and one date that overlap.
err_msgs(up_df) ==
    {p \in (1..Len(up_df)) \X (1..Len(up_df)) :
        /\ p[1] < p[2]
        /\ up_df[p[1]].room_id \in UploadCheckedRooms
        /\ up_df[p[1]].room_id = up_df[p[2]].room_id
        /\ up_df[p[1]].date = up_df[p[2]].date
        /\ upload_overlaps(parse_time_str(up_df[p[1]].start_time),
                           parse_time_str(up_df[p[1]].end_time),
                           parse_time_str(up_df[p[2]].start_time),
                           parse_time_str(up_df[p[2]].end_time))}

UploadRows == {Row(rid, d, slot) : rid \in UploadRooms, d \in Dates, slot \in UploadSlots}

BadUploadRows == {Row("br", d, slot) : d \in Dates, slot \in BadUploadSlots}

\* The files uploaded: of no, one or two rows.
UploadFiles ==
    {<<>>} \cup {<<r>> : r \in UploadRows \cup BadUploadRows}
           \cup {<<r, q>> : r \in UploadRows, q \in UploadRows}


\* ------------------------------------------------------------------- Init
\* The program started, bookings.csv created empty by ensure_csv, nobody
\* signed in to a session yet; the rate file kept from earlier in the day
\* leaves the approver SendsLeft sends.
Init ==
    /\ csv = <<>>
    /\ cache = <<>>
    /\ rate = (otp_bucket_key(APPROVER_EMAIL, 0) :> (OTP_DAILY_LIMIT - SendsLeft))
    /\ now = 0
    /\ otp_ctx = [s \in Sessions |-> None]
    /\ pc = [s \in Sessions |-> "idle"]
    /\ local = [s \in Sessions |-> None]

\* ---------------------------------------------------------------- actions
\* The clock moves on to a later sampled instant.
Tick ==
    /\ \E t \in Instants : t > now /\ now' = t
    /\ UNCHANGED <<csv, cache, rate, otp_ctx, pc, local>>

\* room_card were no room to ask for the approver's OTP.
IsGated_none(rid) == FALSE

\* Which path room_card takes for a room: straight to the store, or OTP.
IsGated(rid) == rid = "br"

\* room_card were it to go on whatever validate_booking returned.
room_card_outcome_unvalidated(new_row) ==
    IF ~IsGated(new_row.room_id) THEN "direct"
    ELSE IF ~otp_can_send(APPROVER_EMAIL) THEN "Daily OTP limit reached for approver."
    ELSE "pending"

\* What room_card answers to a submitted form: the validation error, or
\* "direct" (booked), the daily-limit error, or "pending" (OTP started).
room_card_outcome(new_row) ==
    LET err == validate_booking(new_row, load_bookings)
    IN  IF err # "" THEN err
        ELSE IF ~IsGated(new_row.room_id) THEN "direct"
        ELSE IF ~otp_can_send(APPROVER_EMAIL) THEN "Daily OTP limit reached for approver."
        ELSE "pending"

\* otp_reset were it to leave the session where it is.
otp_reset_keeps(s) == UNCHANGED otp_ctx

\* otp_reset(): the session of s dropped.
otp_reset(s) == otp_ctx' = [otp_ctx EXCEPT ![s] = None]

\* room_card, "Book" submitted with title and host filled in: validation
\* against load_bookings(), then the direct path up to its load, or the
\* gated path up to the call of the mail gateway.
room_card(s, rid, d, slot, otp_plain, salt) ==
    LET new_row == Row(rid, d, slot)
        outcome == room_card_outcome(new_row)
    IN  /\ pc[s] = "idle"
        /\ UNCHANGED <<csv, cache, rate, now>>
        /\ CASE outcome = "direct" ->
                  /\ Len(load_bookings) < MaxStore
                  /\ pc' = [pc EXCEPT ![s] = "commit"]
                  /\ local' = [local EXCEPT ![s] = new_row]
                  /\ UNCHANGED otp_ctx
             [] outcome = "pending" ->
                  /\ otp_ctx' = [otp_ctx EXCEPT ![s] =
                         otp_start_session(new_row, APPROVER_EMAIL, otp_plain, salt)]
                  /\ pc' = [pc EXCEPT ![s] = "send"]
                  /\ UNCHANGED local
             [] OTHER -> UNCHANGED <<otp_ctx, pc, local>>

\* Direct path, second half: df2 = load_bookings() + new_row, written to
\* the file by save_bookings' to_csv.
commit_direct(s) ==
    LET df2 == Append(load_bookings, Stamp(local[s], "direct"))
    IN  /\ pc[s] = "commit"
        /\ Len(df2) <= MaxStore
        /\ csv' = df2
        /\ pc' = [pc EXCEPT ![s] = "clear"]
        /\ UNCHANGED <<cache, rate, now, otp_ctx, local>>

\* save_bookings' load_bookings.clear(), and the handler's last lines:
\* otp_reset() after an approval.
save_bookings_clear(s) ==
    /\ pc[s] \in {"clear", "v_clear", "u_clear"}
    /\ cache' = csv
    /\ pc' = [pc EXCEPT ![s] = "idle"]
    /\ local' = [local EXCEPT ![s] = None]
    /\ IF pc[s] = "v_clear" THEN otp_reset(s) ELSE UNCHANGED otp_ctx
    /\ UNCHANGED <<csv, rate, now>>

\* The gated path were it to count a send whatever the gateway answered.
send_otp_email_counts_all(s, ok_mail) ==
    /\ pc[s] = "send"
    /\ local' = [local EXCEPT ![s] = [data |-> otp_load_rate]]
    /\ pc' = [pc EXCEPT ![s] = "inc"]
    /\ UNCHANGED <<csv, cache, rate, now, otp_ctx>>

\* Gated path, the mail gateway answers: on failure otp_reset(), on
\* success otp_inc_send loads the rate file.
send_otp_email(s, ok_mail) ==
    /\ pc[s] = "send"
    /\ IF ~ok_mail
       THEN /\ otp_reset(s)
            /\ pc' = [pc EXCEPT ![s] = "idle"]
            /\ UNCHANGED local
       ELSE /\ local' = [local EXCEPT ![s] = [data |-> otp_load_rate]]
            /\ pc' = [pc EXCEPT ![s] = "inc"]
            /\ UNCHANGED otp_ctx
    /\ UNCHANGED <<csv, cache, rate, now>>

\* otp_inc_send's otp_save_rate of the map it loaded, one bucket raised.
otp_save_rate(s) ==
    /\ pc[s] = "inc"
    /\ rate' = otp_inc_send(local[s].data, APPROVER_EMAIL)
    /\ pc' = [pc EXCEPT ![s] = "idle"]
    /\ local' = [local EXCEPT ![s] = None]
    /\ UNCHANGED <<csv, cache, now, otp_ctx>>

\* The panel were it to append a row for another room than the session's.
ApprovedRow_other_room(ctx) == [ctx.booking_row EXCEPT !.room_id = "mr1"]

\* The row the panel appends after a successful otp_verify.
ApprovedRow(ctx) == ctx.booking_row

\* Whether the panel commits after otp_verify answered r for ctx.
ApprovalCommits(ctx, r) == r.ok

\* otp_verification_panel, "Verify OTP": otp_verify, and on success the
\* pending row appended to load_bookings() and written to the file.
verify_otp(s, user_otp) ==
    LET r == otp_verify(otp_ctx[s], user_otp)
        df == load_bookings
    IN  /\ pc[s] = "idle"
        /\ otp_ctx[s] # None
        /\ UNCHANGED <<cache, rate, now, local>>
        /\ IF ~WellFormedOtp(user_otp)
           THEN UNCHANGED <<csv, otp_ctx, pc>>
           ELSE IF ApprovalCommits(otp_ctx[s], r)
           THEN /\ Len(df) < MaxStore
                /\ csv' = Append(df, Stamp(ApprovedRow(otp_ctx[s]), "otp"))
                /\ otp_ctx' = [otp_ctx EXCEPT ![s] = r.ctx]
                /\ pc' = [pc EXCEPT ![s] = "v_clear"]
           ELSE /\ otp_ctx' = [otp_ctx EXCEPT ![s] = r.ctx]
                /\ UNCHANGED <<csv, pc>>

\* The panel were it to resend without a cooldown.
can_resend_always(ctx) == TRUE

\* can_resend = otp_now_utc_ts() >= ctx["resend_at"]
can_resend(ctx) == now >= ctx.resend_at

\* The panel were it to drop the session when the resent mail fails.
after_resend_mail_reset(ctx, ok_mail) == IF ok_mail THEN ctx ELSE None

\* The session after the resent mail was handed to the gateway: st.info or
\* st.error, the session as otp_resend left it.
after_resend_mail(ctx, ok_mail) == ctx

\* otp_verification_panel, "Resend OTP": refused during the cooldown, else
\* otp_resend and the mail to the approver, which the gateway delivers
\* (ok_mail) or not.
resend_otp(s, new_plain, new_salt, ok_mail) ==
    /\ pc[s] = "idle"
    /\ otp_ctx[s] # None
    /\ UNCHANGED <<csv, cache, rate, now, pc, local>>
    /\ IF ~can_resend(otp_ctx[s])
       THEN UNCHANGED otp_ctx
       ELSE otp_ctx' = [otp_ctx EXCEPT ![s] =
                after_resend_mail(otp_resend(otp_ctx[s], new_plain, new_salt), ok_mail)]

\* Upload block, a file with the required columns: blocked when err_msgs
\* is not empty, else written to the file by save_bookings' to_csv.
upload(s, up_df) ==
    /\ pc[s] = "idle"
    /\ UNCHANGED <<cache, rate, now, otp_ctx, local>>
    /\ IF err_msgs(up_df) # {}
       THEN UNCHANGED <<csv, pc>>
       ELSE /\ csv' = StampAll(up_df, "bulk")
            /\ pc' = [pc EXCEPT ![s] = "u_clear"]

\* The passcode a session's hash stands for (what the approver's mail says
\* after a delivery).
Passcode(ctx) == ctx.hash[2]

\* ---------------------------------------------------------- the program
Next ==
    \/ Tick
    \/ \E s \in Sessions, rid \in FormRooms, d \in Dates, slot \in FormSlots,
          otp_plain \in Codes, salt \in Salts :
          room_card(s, rid, d, slot, otp_plain, salt)
    \/ \E s \in Sessions : commit_direct(s)
    \/ \E s \in Sessions : save_bookings_clear(s)
    \/ \E s \in Sessions, ok_mail \in BOOLEAN : send_otp_email(s, ok_mail)
    \/ \E s \in Sessions : otp_save_rate(s)
    \/ \E s \in Sessions, user_otp \in TypedCodes : verify_otp(s, user_otp)
    \/ \E s \in Sessions, new_plain \in Codes, new_salt \in Salts, ok_mail \in BOOLEAN :
          resend_otp(s, new_plain, new_salt, ok_mail)
    \/ \E s \in Sessions, up_df \in UploadFiles : upload(s, up_df)

Spec == Init /\ [][Next]_vars

\* ------------------------------------------------- the ways into the store
\* Every handler that reads or writes the store, for every room and slot;
\* the clock stands still, otp_random draws StoreCode, approvers type the
\* passcode of their session.
StoreCode == <<1, 1, 1, 1, 1, 1>>

NextStore ==
    \/ \E s \in Sessions, rid \in FormRooms, d \in Dates, slot \in FormSlots,
          salt \in Salts :
          room_card(s, rid, d, slot, StoreCode, salt)
    \/ \E s \in Sessions : commit_direct(s)
    \/ \E s \in Sessions : save_bookings_clear(s)
    \/ \E s \in Sessions, ok_mail \in BOOLEAN : send_otp_email(s, ok_mail)
    \/ \E s \in Sessions : otp_save_rate(s)
    \/ \E s \in Sessions : verify_otp(s, StoreCode)
    \/ \E s \in Sessions, up_df \in UploadFiles : upload(s, up_df)

SpecStore == Init /\ [][NextStore]_vars

\* --------------------------------------------------------- the handshake
\* Every handler of the OTP handshake, for every passcode drawn and typed
\* and every sampled instant; the Board Room is the only room booked, for
\* the slots of OtpSlots.
OtpSlots == GoodSlots

NextOtp ==
    \/ Tick
    \/ \E s \in Sessions, d \in Dates, slot \in OtpSlots,
          otp_plain \in Codes, salt \in Salts :
          room_card(s, "br", d, slot, otp_plain, salt)
    \/ \E s \in Sessions : save_bookings_clear(s)
    \/ \E s \in Sessions, ok_mail \in BOOLEAN : send_otp_email(s, ok_mail)
    \/ \E s \in Sessions : otp_save_rate(s)
    \/ \E s \in Sessions, user_otp \in TypedCodes : verify_otp(s, user_otp)
    \/ \E s \in Sessions, new_plain \in Codes, new_salt \in Salts, ok_mail \in BOOLEAN :
          resend_otp(s, new_plain, new_salt, ok_mail)

SpecOtp == Init /\ [][NextOtp]_vars

\* ---------------------------------------------------------- the validator
\* validate_booking on its own: the store starts as any frame of up to two
\* committed rows of the ungated rooms, and one session submits the forms
\* of Meeting Rooms 1 and 2 with every slot of ValidateSlots on either
\* date.
ValidateSessions == {"s1"}
ValidateRooms == {"mr1", "mr2"}
ValidateDates == {"2024-01-01", "2024-01-02"}
\* The slot the stored rows hold.
StoredSlots == {<<time(10, 0), time(11, 0)>>}
\* Slots submitted: abutting the stored slot on either side, overlapping
\* it, equal to it, empty, inverted, off the grid at start or at end, and
\* before opening, across closing and after closing.
OneFaultSlots ==
    {<<time(11, 0), time(11, 30)>>, <<time(9, 30), time(10, 0)>>,
     <<time(10, 30), time(11, 30)>>, <<time(10, 0), time(11, 0)>>,
     <<time(10, 0), time(10, 0)>>, <<time(11, 0), time(10, 0)>>,
     <<time(9, 15), time(10, 0)>>, <<time(9, 0), time(9, 45)>>,
     <<time(8, 30), time(9, 30)>>, <<time(18, 30), time(19, 30)>>,
     <<time(19, 30), time(20, 0)>>, <<time(18, 30), time(19, 0)>>}
\* Slots with more than one fault: inverted and outside the hours,
\* inverted and off the grid, outside the hours and off the grid, outside
\* the hours and across the stored slot, off the grid and across it.
ManyFaultSlots ==
    {<<time(8, 30), time(8, 0)>>, <<time(10, 15), time(10, 0)>>,
     <<time(8, 45), time(9, 30)>>, <<time(8, 30), time(10, 30)>>,
     <<time(10, 15), time(11, 0)>>}
ValidateSlots == OneFaultSlots \cup ManyFaultSlots

StoredRows ==
    {Stamp(Row(rid, d, slot), "direct") :
        rid \in ValidateRooms, d \in ValidateDates, slot \in StoredSlots}

StoredFrames ==
    {<<>>} \cup {<<r>> : r \in StoredRows} \cup {<<r, q>> : r \in StoredRows, q \in StoredRows}

InitValidate ==
    /\ csv \in StoredFrames
    /\ cache = csv
    /\ rate = (otp_bucket_key(APPROVER_EMAIL, 0) :> (OTP_DAILY_LIMIT - SendsLeft))
    /\ now = 0
    /\ otp_ctx = [s \in Sessions |-> None]
    /\ pc = [s \in Sessions |-> "idle"]
    /\ local = [s \in Sessions |-> None]

NextValidate ==
    \/ \E s \in ValidateSessions, rid \in ValidateRooms, d \in ValidateDates,
          slot \in ValidateSlots, salt \in Salts :
          room_card(s, rid, d, slot, StoreCode, salt)
    \/ \E s \in ValidateSessions : commit_direct(s)
    \/ \E s \in ValidateSessions : save_bookings_clear(s)

SpecValidate == InitValidate /\ [][NextValidate]_vars

\* ================================================================ claims
Range(f) == {f[i] : i \in DOMAIN f}

\* Two rows of one room and one date whose times overlap.
RowsOverlap(r, q) ==
    /\ r.room_id = q.room_id
    /\ r.date = q.date
    /\ parse_time_str(r.start_time) < parse_time_str(q.end_time)
    /\ parse_time_str(q.start_time) < parse_time_str(r.end_time)

OverlappingPairs(df) ==
    {p \in (1..Len(df)) \X (1..Len(df)) : p[1] < p[2] /\ RowsOverlap(df[p[1]], df[p[2]])}

\* s starts a new OTP session in this step.
Starts(s) == pc[s] = "idle" /\ pc'[s] = "send"

\* s holds the same OTP session before and after this step.
KeepsSession(s) == otp_ctx[s] # None /\ otp_ctx'[s] # None /\ ~Starts(s)

\* ---------------------------------------------------------------- C1
\* C1: in every reachable state no two rows of bookings.csv that share
\* room and date overlap (start1 < end2 and start2 < end1).
C1_NoOverlapInStore == OverlappingPairs(csv) = {}

\* ---------------------------------------------------------------- C2
\* C2: an approval with the correct passcode, made when the store (the
\* file, and the frame load_bookings() returns, which agree) holds a row
\* that overlaps the pending reservation, fails and does not add the
\* pending reservation to the store.
C2_ApprovalRevalidates ==
    [][\A s \in Sessions, c \in Codes :
          ( /\ verify_otp(s, c)
            /\ c = Passcode(otp_ctx[s])
            /\ cache = csv
            /\ Conflicts(otp_ctx[s].booking_row, csv) # {} )
          => csv' = csv]_vars

\* ---------------------------------------------------------------- C3
\* C3: two requestBooking calls for overlapping slots of one ungated room
\* and date never both pass validation and both get committed: the file
\* never holds two overlapping rows that were both booked directly.
C3_NoDoubleDirectCommit ==
    \A p \in OverlappingPairs(csv) :
        ~(csv[p[1]].via = "direct" /\ csv[p[2]].via = "direct")

\* ---------------------------------------------------------------- C4
\* C4 as claimed: every Board Room row of the store was put there by an
\* OTP approval.
C4_GatedOnlyByApproval ==
    \A i \in 1..Len(csv) : csv[i].room_id = "br" => csv[i].via = "otp"

\* C4 as amended: a Board Room row that a step brings into the file (it was
\* neither in the file nor in the cached frame) comes from a bulk upload,
\* or from the approval step of a session whose otp_verify succeeded and
\* whose pending reservation is exactly that row; room_card never writes
\* one.
C4_GatedByApprovalOrImport ==
    [][\A i \in 1..Len(csv') :
          (csv'[i].room_id = "br" /\ csv'[i] \notin Range(csv) \cup Range(cache))
          => \/ /\ csv'[i].via = "bulk"
                /\ \E s \in Sessions, up_df \in UploadFiles : upload(s, up_df)
             \/ /\ csv'[i].via = "otp"
                /\ \E s \in Sessions, c \in Codes :
                      /\ verify_otp(s, c)
                      /\ otp_verify(otp_ctx[s], c).ok
                      /\ Unstamp(csv'[i]) = otp_ctx[s].booking_row]_vars

\* An approved Board Room row stands in the file.
C4_Witness ==
    \E i \in 1..Len(csv) : csv[i].room_id = "br" /\ csv[i].via = "otp"

\* ---------------------------------------------------------------- C5
\* A session whose panel can call otp_verify.
Pending(s) == otp_ctx[s] # None /\ pc[s] = "idle" /\ ~otp_ctx[s].verified

\* A session otp_verify would still check the passcode of.
Live(ctx) == ~ctx.verified /\ now <= ctx.expires_at /\ ctx.attempts_left > 0

\* C5: the reservation a session holds is the candidate room_card
\* validated and handed to otp_start_session, it stays the same as long as
\* the session lives, otp_verify accepts the passcode of a live session,
\* and the approval that commits appends exactly that reservation to the
\* store.
C5_ApprovalCommitsCandidate ==
  /\ [](\A s \in Sessions :
          (Pending(s) /\ Live(otp_ctx[s]))
          => LET r == otp_verify(otp_ctx[s], Passcode(otp_ctx[s]))
             IN  /\ r.ok
                 /\ r.msg = "Verified."
                 /\ r.ctx.booking_row = otp_ctx[s].booking_row)
  /\ [][\A s \in Sessions :
          /\ Starts(s)
             => /\ validate_booking(otp_ctx'[s].booking_row, load_bookings) = ""
                /\ \A d \in Dates, slot \in OtpSlots, p \in Codes, salt \in Salts :
                      room_card(s, "br", d, slot, p, salt)
                      => otp_ctx'[s].booking_row = Row("br", d, slot)
          /\ KeepsSession(s) => otp_ctx'[s].booking_row = otp_ctx[s].booking_row
          /\ (pc[s] = "idle" /\ pc'[s] = "v_clear")
             => /\ verify_otp(s, Passcode(otp_ctx[s]))
                /\ Live(otp_ctx[s])
                /\ csv' = Append(load_bookings, Stamp(otp_ctx[s].booking_row, "otp"))]_vars

\* An approval has just written the pending reservation of s.
C5_Witness ==
    \E s \in Sessions :
        /\ pc[s] = "v_clear"
        /\ Len(csv) > 0
        /\ csv[Len(csv)] = Stamp(otp_ctx[s].booking_row, "otp")

\* ---------------------------------------------------------------- C6
LockedMsg == "Too many wrong attempts. Please resend."

\* No verify of a session left with no attempts succeeds or commits, and
\* only a resend gives the session attempts again.
C6_LockedUntilResend ==
    [][\A s \in Sessions :
          /\ \A c \in TypedCodes :
                (Pending(s) /\ otp_ctx[s].attempts_left = 0 /\ verify_otp(s, c))
                => UNCHANGED <<csv, otp_ctx, pc>>
          /\ (pc[s] = "idle" /\ pc'[s] = "v_clear") => otp_ctx[s].attempts_left > 0
          /\ ( /\ KeepsSession(s)
               /\ otp_ctx[s].attempts_left = 0
               /\ otp_ctx'[s].attempts_left > 0 )
             => \E p \in Codes, salt \in Salts, ok_mail \in BOOLEAN :
                   resend_otp(s, p, salt, ok_mail) /\ can_resend(otp_ctx[s])]_vars

\* C6 as claimed: the fifth consecutive wrong verify of a fresh session
\* returns the locked-out result, and afterwards every verify fails and
\* commits nothing until a resend.
C6_FifthWrongIsLockedOut ==
    /\ [](\A s \in Sessions, c \in Codes :
            ( /\ Pending(s)
              /\ now <= otp_ctx[s].expires_at
              /\ otp_ctx[s].attempts_left = 1
              /\ c # Passcode(otp_ctx[s]) )
            => otp_verify(otp_ctx[s], c).msg = LockedMsg)
    /\ C6_LockedUntilResend

\* C6 as amended: the fifth consecutive wrong verify returns the
\* incorrect-passcode result and leaves 0 attempts; from then on every
\* verify, the correct passcode included, fails (locked-out, or expired
\* once the TTL has passed), changes nothing and commits nothing, until a
\* resend.
C6_FifthWrongLocksSession ==
    /\ [](\A s \in Sessions, c \in Codes :
            Pending(s)
            => LET r == otp_verify(otp_ctx[s], c)
               IN  /\ ( /\ now <= otp_ctx[s].expires_at
                        /\ otp_ctx[s].attempts_left = 1
                        /\ c # Passcode(otp_ctx[s]) )
                      => /\ ~r.ok
                         /\ r.msg = "Incorrect OTP."
                         /\ r.ctx.attempts_left = 0
                   /\ otp_ctx[s].attempts_left = 0
                      => /\ ~r.ok
                         /\ r.ctx = otp_ctx[s]
                         /\ r.msg = IF now > otp_ctx[s].expires_at
                                    THEN "OTP expired. Please resend." ELSE LockedMsg)
    /\ C6_LockedUntilResend

\* A session has used up its attempts.
C6_Witness == \E s \in Sessions : Pending(s) /\ otp_ctx[s].attempts_left = 0

\* ---------------------------------------------------------------- C7
\* C7: a verify of an unverified session made when now > expires_at
\* returns the expired result whatever the passcode, changes nothing and
\* commits nothing; no approval commits past the expiry, and only a resend
\* moves the expiry of a session (to now + TTL).
C7_ExpiredUntilResend ==
    /\ [](\A s \in Sessions, c \in Codes :
            (Pending(s) /\ now > otp_ctx[s].expires_at)
            => otp_verify(otp_ctx[s], c) =
                  [ok |-> FALSE, msg |-> "OTP expired. Please resend.", ctx |-> otp_ctx[s]])
    /\ [][\A s \in Sessions :
            /\ \A c \in TypedCodes :
                  (Pending(s) /\ now > otp_ctx[s].expires_at /\ verify_otp(s, c))
                  => UNCHANGED <<csv, otp_ctx, pc>>
            /\ (pc[s] = "idle" /\ pc'[s] = "v_clear") => now <= otp_ctx[s].expires_at
            /\ (KeepsSession(s) /\ otp_ctx'[s].expires_at # otp_ctx[s].expires_at)
               => /\ \E p \in Codes, salt \in Salts, ok_mail \in BOOLEAN :
                        resend_otp(s, p, salt, ok_mail)
                  /\ otp_ctx'[s].expires_at = now + OTP_TTL_MINUTES * 60]_vars

\* A pending session has expired.
C7_Witness == \E s \in Sessions : Pending(s) /\ now > otp_ctx[s].expires_at

\* ---------------------------------------------------------------- C8
\* What a resend does to the session apart from the passcode.
ResendResets(old, new) ==
    /\ new.expires_at = now + OTP_TTL_MINUTES * 60
    /\ new.attempts_left = OTP_MAX_ATTEMPTS
    /\ new.resend_at = now + OTP_RESEND_COOLDOWN_SECONDS
    /\ ~new.verified
    /\ new.booking_row = old.booking_row
    /\ new.approver_email = old.approver_email

\* C8 as claimed: a resend before resend_at leaves the session unchanged;
\* a resend from resend_at on succeeds, and afterwards the passcode that
\* was valid before no longer verifies.
C8_OldPasscodeDead ==
    [][\A s \in Sessions, p \in Codes, salt \in Salts :
          (Pending(s) /\ resend_otp(s, p, salt, TRUE))
          => IF now < otp_ctx[s].resend_at
             THEN otp_ctx' = otp_ctx
             ELSE /\ ResendResets(otp_ctx[s], otp_ctx'[s])
                  /\ ~otp_verify(otp_ctx'[s], Passcode(otp_ctx[s])).ok]_vars

\* C8 as amended: a resend before resend_at leaves the session unchanged;
\* a resend from resend_at on succeeds, stores the salted hash of the
\* passcode just drawn and resets expiry, attempts and cooldown; afterwards
\* the new passcode verifies, and the old one verifies only when
\* otp_random drew the same digits again.
C8_ResendRotates ==
    [][\A s \in Sessions, p \in Codes, salt \in Salts :
          (Pending(s) /\ resend_otp(s, p, salt, TRUE))
          => IF now < otp_ctx[s].resend_at
             THEN otp_ctx' = otp_ctx
             ELSE /\ ResendResets(otp_ctx[s], otp_ctx'[s])
                  /\ otp_ctx'[s].salt = salt
                  /\ otp_ctx'[s].hash = otp_hash(p, salt)
                  /\ \A c \in Codes : otp_verify(otp_ctx'[s], c).ok <=> c = p]_vars

\* A session is past its cooldown: a resend can be asked for.
C8_Witness ==
    \E s \in Sessions : Pending(s) /\ now >= otp_ctx[s].resend_at

\* ---------------------------------------------------------------- C9
SendsToday == Count(rate, otp_bucket_key(APPROVER_EMAIL, now))

GatedCandidates == {Row("br", d, slot) : d \in Dates, slot \in FormSlots}

LimitMsg == "Daily OTP limit reached for approver."

\* C9: with OTP_DAILY_LIMIT sends recorded for the approver today, a valid
\* request for the Board Room is answered with the daily-limit error and
\* changes nothing: no session, no mail, no count; a session only ever
\* starts below the limit.
C9_DailyLimitRejects ==
    /\ [](\A row \in GatedCandidates :
            (SendsToday >= OTP_DAILY_LIMIT /\ validate_booking(row, load_bookings) = "")
            => room_card_outcome(row) = LimitMsg)
    /\ [][\A s \in Sessions :
            /\ ( /\ pc[s] = "idle"
                 /\ SendsToday >= OTP_DAILY_LIMIT
                 /\ <<otp_ctx[s], pc[s], local[s], rate>>' # <<otp_ctx[s], pc[s], local[s], rate>> )
               => \A d \in Dates, slot \in FormSlots, p \in Codes, salt \in Salts :
                     ~room_card(s, "br", d, slot, p, salt)
            /\ Starts(s) => SendsToday < OTP_DAILY_LIMIT]_vars

\* The limit is reached and a session could ask for the Board Room.
C9_Witness ==
    /\ SendsToday >= OTP_DAILY_LIMIT
    /\ \E s \in Sessions, row \in GatedCandidates :
          pc[s] = "idle" /\ validate_booking(row, load_bookings) = ""

\* --------------------------------------------------------------- C10
\* C10: an upload with a pairwise overlap inside any (room, date) group,
\* whatever the room id, leaves the store as it was.
C10_OverlapRejectsUpload ==
    [][\A s \in Sessions, up_df \in UploadFiles :
          (upload(s, up_df) /\ OverlappingPairs(up_df) # {}) => csv' = csv]_vars

\* --------------------------------------------------------------- C11
\* C11: when the mail of a gated request is not delivered the handler ends
\* with no OTP session and the rate file as it was; the rate file changes
\* only in otp_inc_send, which only a delivered mail leads to.
C11_FailedDeliveryLeavesNothing ==
    [][\A s \in Sessions :
          /\ (pc[s] = "send" /\ send_otp_email(s, FALSE))
             => /\ otp_ctx'[s] = None
                /\ rate' = rate
                /\ pc'[s] = "idle"
          /\ (pc[s] = "send" /\ pc'[s] = "idle") => send_otp_email(s, FALSE)
          /\ (pc[s] # "inc" /\ pc'[s] = "inc")
             => pc[s] = "send" /\ send_otp_email(s, TRUE)]_vars
    /\ [][rate' # rate => \E s \in Sessions : pc[s] = "inc" /\ otp_save_rate(s)]_vars

\* A gated request has started its session and waits for the gateway.
C11_Witness == \E s \in Sessions : pc[s] = "send" /\ otp_ctx[s] # None

\* --------------------------------------------------------------- C12
\* start < end, both within business hours, both on the slot grid.
WellTimed(r) ==
    LET start_t == parse_time_str(r.start_time)
        end_t == parse_time_str(r.end_time)
    IN  /\ start_t < end_t
        /\ BUSINESS_HOURS[1] <= start_t /\ end_t <= BUSINESS_HOURS[2]
        /\ start_t % SLOT_MINUTES = 0 /\ end_t % SLOT_MINUTES = 0

\* C12: every row of bookings.csv, whichever handler wrote it, has
\* start < end, both times within 09:00-19:00 and both on the 30-minute
\* grid.
C12_StoredRowsWellTimed == \A i \in 1..Len(csv) : WellTimed(csv[i])

\* ------------------------------------------------------- C13, C14, C15
\* What the claims say of a submitted (start, end), in minutes of the day.
Outside(slot) ==
    \/ slot[1] < time(9, 0) \/ slot[1] > time(19, 0)
    \/ slot[2] < time(9, 0) \/ slot[2] > time(19, 0)

OffGrid(slot) == slot[1] % 30 # 0 \/ slot[2] % 30 # 0

TimesPass(slot) == slot[1] < slot[2] /\ ~Outside(slot) /\ ~OffGrid(slot)

\* The stored rows of the candidate's room and date, and those of them the
\* candidate overlaps: start1 < end2 and start2 < end1.
SameRoomDate(rid, d, df) == {i \in 1..Len(df) : df[i].room_id = rid /\ df[i].date = d}

Overlapped(rid, d, slot, df) ==
    {i \in SameRoomDate(rid, d, df) :
        /\ slot[1] < time(df[i].end_time[1], df[i].end_time[2])
        /\ time(df[i].start_time[1], df[i].start_time[2]) < slot[2]}

Abutted(rid, d, slot, df) ==
    {i \in SameRoomDate(rid, d, df) :
        \/ slot[1] = time(df[i].end_time[1], df[i].end_time[2])
        \/ slot[2] = time(df[i].start_time[1], df[i].start_time[2])}

\* C13: validate_booking rejects every candidate with end <= start,
\* whatever the store holds.
C13_RejectsEndNotAfterStart ==
    \A rid \in ValidateRooms, d \in ValidateDates, slot \in ValidateSlots :
        slot[2] <= slot[1]
        => validate_booking(Row(rid, d, slot), load_bookings)
              = "End time must be after start time."

\* Against a store that is not empty, an empty and an inverted candidate
\* are both rejected.
C13_Witness ==
    /\ Len(load_bookings) > 0
    /\ \E rid \in ValidateRooms, d \in ValidateDates, slot \in ValidateSlots :
          /\ slot[2] = slot[1]
          /\ validate_booking(Row(rid, d, slot), load_bookings) # ""
    /\ \E rid \in ValidateRooms, d \in ValidateDates, slot \in ValidateSlots :
          /\ slot[2] < slot[1]
          /\ validate_booking(Row(rid, d, slot), load_bookings) # ""

\* C14: validate_booking rejects every candidate with start or end outside
\* 09:00-19:00 and every candidate with start or end off the 30-minute
\* grid (09:15 rejected), and accepts a candidate when nothing fails:
\* start < end, inside the hours, on the grid (09:30 accepted), no overlap.
C14_RejectsOutsideHoursAndOffGrid ==
    \A rid \in ValidateRooms, d \in ValidateDates, slot \in ValidateSlots :
        LET err == validate_booking(Row(rid, d, slot), load_bookings)
        IN  /\ (Outside(slot) \/ OffGrid(slot)) => err # ""
            /\ (slot[1] = time(9, 15) \/ slot[2] = time(9, 45)) => err # ""
            /\ (TimesPass(slot) /\ Overlapped(rid, d, slot, load_bookings) = {})
               => err = ""

\* Against one store 09:15-10:00 is rejected and 09:30-10:00 accepted.
C14_Witness ==
    \E rid \in ValidateRooms, d \in ValidateDates :
        /\ SameRoomDate(rid, d, load_bookings) # {}
        /\ validate_booking(Row(rid, d, <<time(9, 15), time(10, 0)>>), load_bookings)
              = "Time must align with slots."
        /\ validate_booking(Row(rid, d, <<time(9, 30), time(10, 0)>>), load_bookings) = ""
        /\ validate_booking(Row(rid, d, <<time(18, 30), time(19, 30)>>), load_bookings)
              = "Booking must be within business hours."

\* The rows of df of one room and one date, in order.
RECURSIVE OnlyRoomDate(_, _, _)
OnlyRoomDate(rid, d, df) ==
    IF df = <<>> THEN <<>>
    ELSE LET rest == OnlyRoomDate(rid, d, Tail(df))
         IN  IF Head(df).room_id = rid /\ Head(df).date = d
             THEN <<Head(df)>> \o rest ELSE rest

\* C15: a candidate that passes the time checks is rejected exactly when a
\* stored row of its room and date has start1 < end2 and start2 < end1; a
\* candidate that only abuts stored rows is accepted; rows of another room
\* or date make no difference.
C15_RejectsExactlyOverlaps ==
    \A rid \in ValidateRooms, d \in ValidateDates, slot \in ValidateSlots :
        LET df == load_bookings
            err == validate_booking(Row(rid, d, slot), df)
        IN  TimesPass(slot)
            => /\ err # "" <=> Overlapped(rid, d, slot, df) # {}
               /\ err # "" => err = "Conflict with existing booking."
               /\ (SameRoomDate(rid, d, df) = Abutted(rid, d, slot, df)) => err = ""
               /\ err = validate_booking(Row(rid, d, slot), OnlyRoomDate(rid, d, df))

\* A store with rows of two rooms or dates against which one candidate
\* that abuts a stored row of its room and date is accepted and another
\* that overlaps it is rejected.
C15_Witness ==
    \E rid \in ValidateRooms, d \in ValidateDates :
        /\ SameRoomDate(rid, d, load_bookings) # {}
        /\ SameRoomDate(rid, d, load_bookings) # 1..Len(load_bookings)
        /\ \E slot \in ValidateSlots :
              /\ TimesPass(slot)
              /\ Abutted(rid, d, slot, load_bookings) # {}
              /\ validate_booking(Row(rid, d, slot), load_bookings) = ""
        /\ \E slot \in ValidateSlots :
              /\ TimesPass(slot)
              /\ validate_booking(Row(rid, d, slot), load_bookings)
                    = "Conflict with existing booking."

\* --------------------------------------------------------------- C16
\* C16: a request validate_booking rejects (end not after start, outside
\* the hours, off the grid, conflict) changes nothing, for the Board Room
\* and the other rooms alike: no step that moves the session's handler or
\* changes its OTP session, the store or the rate file is such a request.
C16_RejectedRequestChangesNothing ==
    [][\A s \in Sessions :
          ( /\ pc[s] = "idle"
            /\ <<pc[s], otp_ctx[s], local[s]>>' # <<pc[s], otp_ctx[s], local[s]>> )
          => \A rid \in FormRooms, d \in Dates, slot \in FormSlots, salt \in Salts :
                room_card(s, rid, d, slot, StoreCode, salt)
                => validate_booking(Row(rid, d, slot), load_bookings) = ""]_vars

\* Against a store that is not empty a session could ask for a slot that
\* conflicts, for the Board Room and for Meeting Room 1.
C16_Witness ==
    \E s \in Sessions :
        /\ pc[s] = "idle"
        /\ \A rid \in FormRooms :
              \E d \in Dates, slot \in FormSlots :
                 validate_booking(Row(rid, d, slot), load_bookings)
                    = "Conflict with existing booking."
        /\ \E t \in Sessions : otp_ctx[t] # None

\* --------------------------------------------------------------- C17
\* An unverified session waiting in the panel whose expiry has passed.
Expired(s) == Pending(s) /\ now > otp_ctx[s].expires_at

\* C17 as claimed: the first check made on an expired session (a verify, a
\* resend or a new start) clears it: after the step the session is gone,
\* or a new start has put a fresh one in its place.
C17_ExpiredSessionCleared ==
    [][\A s \in Sessions :
          ( /\ Expired(s)
            /\ \/ Starts(s)
               \/ \E c \in Codes : verify_otp(s, c)
               \/ \E p \in Codes, salt \in Salts, ok_mail \in BOOLEAN :
                     can_resend(otp_ctx[s]) /\ resend_otp(s, p, salt, ok_mail) )
          => (otp_ctx'[s] = None \/ Starts(s))]_vars

\* C17 as amended: nothing clears an expired session.  A verify answers
\* "expired" and leaves the session and its pending reservation in place;
\* a resend revives the same session, pending reservation included, with
\* a new passcode, a new expiry and full attempts; only a new start puts
\* another session in its place.
C17_ExpiredSessionKept ==
    /\ [](\A s \in Sessions, c \in Codes :
            Expired(s)
            => /\ ~otp_verify(otp_ctx[s], c).ok
               /\ otp_verify(otp_ctx[s], c).ctx = otp_ctx[s])
    /\ [][\A s \in Sessions :
            Expired(s)
            => /\ otp_ctx'[s] # None
               /\ otp_ctx'[s] # otp_ctx[s]
                  => \/ Starts(s)
                     \/ /\ can_resend(otp_ctx[s])
                        /\ \E p \in Codes, salt \in Salts, ok_mail \in BOOLEAN :
                              resend_otp(s, p, salt, ok_mail)
                        /\ otp_ctx'[s].booking_row = otp_ctx[s].booking_row
                        /\ otp_ctx'[s].expires_at = now + OTP_TTL_MINUTES * 60
                        /\ otp_ctx'[s].attempts_left = OTP_MAX_ATTEMPTS]_vars

\* A session that wrong passcodes were tried on has expired and still
\* waits in the panel.
C17_Witness ==
    \E s \in Sessions :
        Expired(s) /\ otp_ctx[s].attempts_left < OTP_MAX_ATTEMPTS

\* --------------------------------------------------------------- C18
\* C18: the approval handler that committed ends with the session absent;
\* otp_verify on an absent session answers "Session missing." whatever the
\* passcode; a session is verified only while its approval handler runs,
\* and an approval appends only for a session not yet verified, so no
\* session appends its reservation twice.
C18_CommittedSessionAbsent ==
    /\ [](\A s \in Sessions :
            /\ otp_ctx[s] = None
               => \A c \in Codes :
                     otp_verify(otp_ctx[s], c)
                        = [ok |-> FALSE, msg |-> "Session missing.", ctx |-> None]
            /\ (otp_ctx[s] # None /\ otp_ctx[s].verified) => pc[s] = "v_clear")
    /\ [][\A s \in Sessions :
            /\ (pc[s] = "v_clear" /\ pc'[s] # "v_clear")
               => otp_ctx'[s] = None /\ pc'[s] = "idle" /\ csv' = csv
            /\ (pc[s] # "v_clear" /\ pc'[s] = "v_clear")
               => /\ otp_ctx[s] # None
                  /\ ~otp_ctx[s].verified
                  /\ otp_ctx'[s].verified
                  /\ Len(csv') = Len(load_bookings) + 1
            /\ otp_ctx[s] = None => pc'[s] # "v_clear"]_vars

\* An approval was committed and every session is absent again.
C18_Witness ==
    /\ \A s \in Sessions : otp_ctx[s] = None /\ pc[s] = "idle"
    /\ \E i \in 1..Len(load_bookings) : load_bookings[i].via = "otp"

\* --------------------------------------------------------------- C19
\* C19: within one session attempts_left changes in two ways only: a wrong
\* passcode verified against a live session (unverified, not expired,
\* attempts left) lowers it by one, and a resend sets it to
\* OTP_MAX_ATTEMPTS; the right passcode, a verify of an expired or locked
\* session and a resend refused by the cooldown leave it as it is.
C19_AttemptsChangeTwoWays ==
    /\ [](\A s \in Sessions, c \in Codes :
            Pending(s)
            => otp_verify(otp_ctx[s], c).ctx.attempts_left
                  = IF Live(otp_ctx[s]) /\ c # Passcode(otp_ctx[s])
                    THEN otp_ctx[s].attempts_left - 1
                    ELSE otp_ctx[s].attempts_left)
    /\ [][\A s \in Sessions :
            KeepsSession(s)
            => /\ otp_ctx'[s].attempts_left # otp_ctx[s].attempts_left
                  => \/ /\ otp_ctx'[s].attempts_left = otp_ctx[s].attempts_left - 1
                        /\ Live(otp_ctx[s])
                        /\ \E c \in Codes :
                              c # Passcode(otp_ctx[s]) /\ verify_otp(s, c)
                     \/ /\ otp_ctx'[s].attempts_left = OTP_MAX_ATTEMPTS
                        /\ can_resend(otp_ctx[s])
                        /\ \E p \in Codes, salt \in Salts, ok_mail \in BOOLEAN :
                              resend_otp(s, p, salt, ok_mail)
               /\ otp_ctx'[s].resend_at # otp_ctx[s].resend_at
                  => otp_ctx'[s].attempts_left = OTP_MAX_ATTEMPTS]_vars

\* A live session on which two wrong passcodes were tried.
C19_Witness ==
    \E s \in Sessions :
        /\ Pending(s)
        /\ Live(otp_ctx[s])
        /\ otp_ctx[s].attempts_left = OTP_MAX_ATTEMPTS - 2

\* --------------------------------------------------------------- C20
\* C20 as claimed: when the mail of a resend is not delivered the session
\* stays, with expiry, attempts and cooldown reset and the pending
\* reservation and approver kept, the store is unchanged, and the passcode
\* valid before the resend no longer verifies.
C20_FailedResendOldPasscodeDead ==
    [][\A s \in Sessions, p \in Codes, salt \in Salts :
          (Pending(s) /\ can_resend(otp_ctx[s]) /\ resend_otp(s, p, salt, FALSE))
          => /\ otp_ctx'[s] # None
             /\ ResendResets(otp_ctx[s], otp_ctx'[s])
             /\ csv' = csv
             /\ ~otp_verify(otp_ctx'[s], Passcode(otp_ctx[s])).ok]_vars

\* C20 as amended: when the mail of a resend is not delivered the session
\* stays, holding the salted hash of the passcode just drawn, with expiry,
\* attempts and cooldown reset and the pending reservation and approver
\* kept; store and rate file are unchanged; the passcode valid before the
\* resend verifies afterwards only when otp_random drew the same digits.
C20_FailedResendKeepsRotatedSession ==
    [][\A s \in Sessions, p \in Codes, salt \in Salts :
          (Pending(s) /\ can_resend(otp_ctx[s]) /\ resend_otp(s, p, salt, FALSE))
          => /\ otp_ctx'[s] # None
             /\ ResendResets(otp_ctx[s], otp_ctx'[s])
             /\ otp_ctx'[s].hash = otp_hash(p, salt)
             /\ csv' = csv /\ rate' = rate /\ pc' = pc
             /\ \A c \in Codes : otp_verify(otp_ctx'[s], c).ok <=> c = p]_vars

\* A locked session is past its cooldown: its approver asks for a resend.
C20_Witness ==
    \E s \in Sessions :
        /\ Pending(s)
        /\ otp_ctx[s].attempts_left = 0
        /\ can_resend(otp_ctx[s])

\* --------------------------------------------------------------- C21
\* C21: whatever the interleaving of the otp_inc_send calls of concurrent
\* sessions (load the map, raise one bucket, save the whole map), the
\* count the rate file holds for a bucket never goes down.
C21_CountNeverDecreases ==
    [][\A k \in DOMAIN rate : Count(rate', k) >= rate[k]]_vars

\* --------------------------------------------------------------- C22
\* The checks a candidate fails, numbered in the order of the claim:
\* 1 end after start, 2 business hours, 3 slot grid, 4 conflict.
FailedChecks(rid, d, slot, df) ==
    (IF slot[2] <= slot[1] THEN {1} ELSE {})
    \cup (IF slot[1] < time(9, 0) \/ slot[2] > time(19, 0) THEN {2} ELSE {})
    \cup (IF OffGrid(slot) THEN {3} ELSE {})
    \cup (IF Overlapped(rid, d, slot, df) # {} THEN {4} ELSE {})

Reason(n) ==
    CASE n = 1 -> "End time must be after start time."
      [] n = 2 -> "Booking must be within business hours."
      [] n = 3 -> "Time must align with slots."
      [] n = 4 -> "Conflict with existing booking."

\* C22: validate_booking reports the reason of the first check that fails
\* in the order end after start, business hours, slot grid, conflict, and
\* no reason when none fails.
C22_FirstFailureWins ==
    \A rid \in ValidateRooms, d \in ValidateDates, slot \in ValidateSlots :
        LET failed == FailedChecks(rid, d, slot, load_bookings)
            err == validate_booking(Row(rid, d, slot), load_bookings)
        IN  IF failed = {} THEN err = ""
            ELSE err = Reason(CHOOSE n \in failed : \A m \in failed : n <= m)

\* Against one store a candidate fails checks 1 and 2, another 2 and 4,
\* another 3 and 4.
C22_Witness ==
    \E rid \in ValidateRooms, d \in ValidateDates :
        \A pair \in {{1, 2}, {2, 4}, {3, 4}} :
            \E slot \in ValidateSlots :
                pair \subseteq FailedChecks(rid, d, slot, load_bookings)

\* --------------------------------------------------------------- C23
\* C23: at most one OTP session exists at any time, so that a gated
\* request accepted while one is pending replaces it, and an approval that
\* commits appends the reservation of the one session there is, the most
\* recently started, and never that of a session replaced before.
C23_OneSessionAtATime ==
    /\ [](Cardinality({s \in Sessions : otp_ctx[s] # None}) <= 1)
    /\ [][\A s \in Sessions :
            (pc[s] = "idle" /\ pc'[s] = "v_clear")
            => /\ csv' = Append(load_bookings, Stamp(otp_ctx[s].booking_row, "otp"))
               /\ \A t \in Sessions \ {s} : otp_ctx[t] = None]_vars

\* --------------------------------------------------------------- C24
\* C24: whenever a browser session holds an OTP session, its attempts_left
\* is an integer from 0 to OTP_MAX_ATTEMPTS.
C24_AttemptsInRange ==
    \A s \in Sessions :
        otp_ctx[s] # None => otp_ctx[s].attempts_left \in 0..OTP_MAX_ATTEMPTS

\* One session has used up its attempts while another, started or resent,
\* has them all.
C24_Witness ==
    \E s \in Sessions, t \in Sessions :
        /\ Pending(s) /\ Pending(t)
        /\ otp_ctx[s].attempts_left = 0
        /\ otp_ctx[t].attempts_left = OTP_MAX_ATTEMPTS

====
